---- MODULE Spec2Model ----
(***************************************************************************)
(* Obesity prediction service (src/apps.py) and its form front end         *)
(* (src/streamlit_app.py).                                                 *)
(*                                                                         *)
(* Numbers.  A Python float is a binary double and is modelled as one:     *)
(* NaN, an infinity, or m * 2^e with a significand of at most 53 bits,     *)
(* computed with correctly rounded (to nearest, ties to even) conversion   *)
(* from decimal, multiplication and round().  The sign of zero is not      *)
(* kept.  Significands and Python ints are numbers of any size.            *)
(*                                                                         *)
(* The request schema is the one pydantic 2 builds (the repository pins no *)
(* release): a str field takes a JSON string only, a float field takes a   *)
(* number or a string that parses as one, and the error report echoes the  *)
(* offending input.                                                        *)
(***************************************************************************)
EXTENDS Integers, Sequences, FiniteSets, TLC

\* Number of predict requests the clients issue (request ids 1..MaxRequests).
MaxRequests == 2

Requests == 1..MaxRequests

(***************************************************************************)
(* Natural numbers of any size: the sequence of the limbs, lowest first,   *)
(* with no zero limb at the top; zero is the empty sequence.               *)
(***************************************************************************)
LimbBits == 3 * 5
Base == 2 ^ LimbBits

\* a without the zero limbs at its top
Trim(a) ==
  LET used == {i \in 1..Len(a) : a[i] # 0}
  IN  IF used = {} THEN << >>
      ELSE SubSeq(a, 1, CHOOSE i \in used : \A j \in used : j <= i)

RECURSIVE Num(_)
Num(n) == IF n = 0 THEN << >> ELSE << n % Base >> \o Num(n \div Base)

\* The limbs of a * k + c and the carry out of the top limb, for
\* 0 < k < Base and 0 <= c < Base
RECURSIVE MulLimbs(_, _, _)
MulLimbs(a, k, c) ==
  IF a = << >> THEN [d |-> << >>, c |-> c]
  ELSE IF Len(a) = 1
    THEN LET v == a[1] * k + c IN [d |-> << v % Base >>, c |-> v \div Base]
  ELSE LET h == Len(a) \div 2
           lo == MulLimbs(SubSeq(a, 1, h), k, c)
       IN  IF lo.c >= 0
             THEN LET hi == MulLimbs(SubSeq(a, h + 1, Len(a)), k, lo.c)
                  IN  [d |-> lo.d \o hi.d, c |-> hi.c]
           ELSE lo

\* a * k + c
MulAdd(a, k, c) == LET p == MulLimbs(a, k, c) IN p.d \o Num(p.c)

\* The limbs of the quotient of (r * Base^Len(a) + a) by k and its
\* remainder, for 0 <= r < k < Base
RECURSIVE DivLimbs(_, _, _)
DivLimbs(a, k, r) ==
  IF a = << >> THEN [q |-> << >>, r |-> r]
  ELSE IF Len(a) = 1
    THEN LET v == r * Base + a[1] IN [q |-> << v \div k >>, r |-> v % k]
  ELSE LET h == Len(a) \div 2
           hi == DivLimbs(SubSeq(a, h + 1, Len(a)), k, r)
       IN  IF hi.r >= 0
             THEN LET lo == DivLimbs(SubSeq(a, 1, h), k, hi.r)
                  IN  [q |-> lo.q \o hi.q, r |-> lo.r]
           ELSE hi

\* Quotient and remainder of a by k < Base
DivMod(a, k) == LET d == DivLimbs(a, k, 0) IN [q |-> Trim(d.q), r |-> d.r]

\* The limbs of a + b + c and the carry out, for a and b of one length
RECURSIVE AddLimbs(_, _, _)
AddLimbs(a, b, c) ==
  IF a = << >> THEN [d |-> << >>, c |-> c]
  ELSE IF Len(a) = 1
    THEN LET v == a[1] + b[1] + c IN [d |-> << v % Base >>, c |-> v \div Base]
  ELSE LET h == Len(a) \div 2
           lo == AddLimbs(SubSeq(a, 1, h), SubSeq(b, 1, h), c)
       IN  IF lo.c >= 0
             THEN LET hi == AddLimbs(SubSeq(a, h + 1, Len(a)),
                                     SubSeq(b, h + 1, Len(b)), lo.c)
                  IN  [d |-> lo.d \o hi.d, c |-> hi.c]
           ELSE lo

Add(a, b) ==
  LET n == IF Len(a) >= Len(b) THEN Len(a) ELSE Len(b)
      s == AddLimbs(a \o [i \in 1..(n - Len(a)) |-> 0],
                    b \o [i \in 1..(n - Len(b)) |-> 0], 0)
  IN  s.d \o Num(s.c)

\* a < b, a <= b
Less(a, b) ==
  IF Len(a) # Len(b) THEN Len(a) < Len(b)
  ELSE LET differ == {i \in 1..Len(a) : a[i] # b[i]}
       IN  /\ differ # {}
           /\ LET top == CHOOSE i \in differ : \A j \in differ : j <= i
              IN  a[top] < b[top]

LessEq(a, b) == ~Less(b, a)

IsOdd(a) == a # << >> /\ a[1] % 2 = 1

RECURSIVE Bits(_)
Bits(v) == IF v = 0 THEN 0 ELSE 1 + Bits(v \div 2)

BitLen(a) ==
  IF a = << >> THEN 0 ELSE (Len(a) - 1) * LimbBits + Bits(a[Len(a)])

\* a * 2^n
ShiftLeft(a, n) ==
  IF a = << >> THEN a
  ELSE [i \in 1..(n \div LimbBits) |-> 0] \o MulAdd(a, 2 ^ (n % LimbBits), 0)

\* a / 2^n rounded down, and whether a bit was dropped
FloorShift(a, n) ==
  LET w == n \div LimbBits
      d == DivMod(SubSeq(a, w + 1, Len(a)), 2 ^ (n % LimbBits))
  IN  [q |-> d.q,
       sticky |-> d.r # 0 \/ \E i \in 1..w : i <= Len(a) /\ a[i] # 0]

RECURSIVE TrailingZeros(_)
TrailingZeros(v) == IF v % 2 = 1 THEN 0 ELSE 1 + TrailingZeros(v \div 2)

\* The number of zero bits below the lowest one bit of a # 0
LowZeros(a) ==
  LET low == CHOOSE i \in 1..Len(a) : a[i] # 0 /\ \A j \in 1..(i - 1) : a[j] = 0
  IN  (low - 1) * LimbBits + TrailingZeros(a[low])

\* a * 10^k
RECURSIVE TimesPow10(_, _)
TimesPow10(a, k) ==
  IF k = 0 THEN a
  ELSE IF k <= 4 THEN MulAdd(a, 10 ^ k, 0)
  ELSE LET first == TimesPow10(a, k \div 2)
       IN  IF Len(first) >= 0 THEN TimesPow10(first, k - k \div 2) ELSE first

\* a / 10^k rounded down, and whether a remainder was dropped
RECURSIVE OverPow10(_, _)
OverPow10(a, k) ==
  IF k = 0 THEN [q |-> a, sticky |-> FALSE]
  ELSE IF k <= 4
    THEN LET d == DivMod(a, 10 ^ k) IN [q |-> d.q, sticky |-> d.r # 0]
  ELSE LET first == OverPow10(a, k \div 2)
       IN  IF Len(first.q) >= 0
             THEN LET then == OverPow10(first.q, k - k \div 2)
                  IN  [q |-> then.q, sticky |-> first.sticky \/ then.sticky]
           ELSE first

(***************************************************************************)
(* Python values.  A float is a binary double: NaN, an infinity, or the    *)
(* number m * 2^e (negated when neg) with m odd, or zero.                  *)
(***************************************************************************)
None == [k |-> "None"]
NA == [k |-> "NA"]
NaN == [k |-> "nan"]
Inf(neg) == [k |-> "inf", neg |-> neg]
Zero == [k |-> "float", neg |-> FALSE, m |-> << >>, e |-> 0]

\* The significand of a double has 53 bits; the lowest bit of the smallest
\* double is 2^-1074 and every double is below 2^1024
Precision == 50 + 3
MinExp == 0 - 1074
MaxExp == 2 ^ 10

\* m * 2^e for a number m # 0 of at most 53 bits, as the double it is
Finite(neg, m, e) ==
  LET z == LowZeros(m)
  IN  [k |-> "float", neg |-> neg, m |-> FloorShift(m, z).q, e |-> e + z]

\* m * 2^t for a number m of at most 53 bits, as the double it is, or the
\* infinity when it is beyond every double
Bounded(neg, m, t) ==
  IF m = << >> THEN Zero
  ELSE IF BitLen(m) + t > MaxExp THEN Inf(neg)
  ELSE Finite(neg, m, t)

\* kept, or the number after it: up when the guard bit is set and either
\* more was dropped or kept is odd (a tie goes to the even number)
HalfEven(kept, guard, rest) ==
  IF guard /\ (rest \/ IsOdd(kept)) THEN MulAdd(kept, 1, 1) ELSE kept

\* f.q / 2 to the nearest, where f.sticky or sticky says bits were dropped
\* below f.q
RoundHalf(f, sticky) ==
  HalfEven(FloorShift(f.q, 1).q, IsOdd(f.q), sticky \/ f.sticky)

\* q * 2^x rounded to a multiple of 2^t
RoundAt(neg, q, x, sticky, t) ==
  IF t <= x THEN Bounded(neg, q, x)
  ELSE Bounded(neg, RoundHalf(FloorShift(q, t - x - 1), sticky), t)

\* The double nearest to q * 2^x, or to a number above it and below
\* (q + 1) * 2^x when sticky (q must then have more than 54 bits); a tie
\* goes to the even significand
Round53(neg, q, x, sticky) ==
  IF q = << >> THEN Zero
  ELSE RoundAt(neg, q, x, sticky,
               IF x + BitLen(q) - Precision >= MinExp
                 THEN x + BitLen(q) - Precision ELSE MinExp)

\* d * 10^p as q * 2^x, q cut to a whole number with Guard bits and more
\* below the 53 kept
Guard == 4 * 15
Binary(d, p) ==
  IF p >= 0 THEN [q |-> TimesPow10(d, p), x |-> 0, sticky |-> FALSE]
  ELSE [x |-> 0 - (Guard + 4 * (0 - p))]
         @@ OverPow10(ShiftLeft(d, Guard + 4 * (0 - p)), 0 - p)

Round53Of(neg, b) == Round53(neg, b.q, b.x, b.sticky)

\* The double nearest to d * 10^p, for a number d
FromDecimal(neg, d, p) ==
  IF d = << >> THEN Zero ELSE Round53Of(neg, Binary(d, p))

\* n / 2^b and n / 10^d for small integers
Dyadic(n, b) == Round53(n < 0, Num(IF n < 0 THEN 0 - n ELSE n), 0 - b, FALSE)
Decimal(n, d) == FromDecimal(n < 0, Num(IF n < 0 THEN 0 - n ELSE n), 0 - d)

\* n/32
Float(n) == Dyadic(n, 5)

BigInt(neg, n) == [k |-> "int", neg |-> neg /\ n # << >>, n |-> n]

(***************************************************************************)
(* JSON values of a request body                                           *)
(***************************************************************************)
\* A JSON string: the text of a categorical value, or, where the string
\* stands in a float field, the sequence of its characters
JStr(s) == [j |-> "string", s |-> s]
\* A JSON number, by the double it is read as
JNum(x) == [j |-> "number", x |-> x]
JNaN == [j |-> "NaN"]
JNull == [j |-> "null"]

(***************************************************************************)
(* ObesityInput: the request schema                                        *)
(***************************************************************************)
StrFields ==
  {"Gender", "family_history_with_overweight", "FAVC", "CAEC", "SMOKE",
   "SCC", "CALC", "MTRANS"}

FloatFields == {"Age", "Height", "Weight", "FCVC", "NCP", "CH2O", "FAF", "TUE"}

Fields == StrFields \cup FloatFields

(***************************************************************************)
(* A string in a float field (pydantic 2: str_as_float).  The string is    *)
(* the sequence of its characters, a character outside printable ASCII     *)
(* written by its code point ("U+00A0").  The string with the blanks       *)
(* around it trimmed is parsed as a float literal; when that fails, the    *)
(* untrimmed string with its underscores removed is parsed, unless an      *)
(* underscore starts or ends it or two stand together.                     *)
(***************************************************************************)
Digits == {"0", "1", "2", "3", "4", "5", "6", "7", "8", "9"}

DigitValue(c) ==
  CASE c = "0" -> 0 [] c = "1" -> 1 [] c = "2" -> 2 [] c = "3" -> 3
    [] c = "4" -> 4 [] c = "5" -> 5 [] c = "6" -> 6 [] c = "7" -> 7
    [] c = "8" -> 8 [] c = "9" -> 9

\* The characters with the Unicode property White_Space (the tab, the line
\* feed, the form feed and the carriage return by escape and by code point)
Whitespace ==
  {"\t", "\n", "\f", "\r", "U+0009", "U+000A", "U+000B", "U+000C",
   "U+000D", " ", "U+0020", "U+0085", "U+00A0", "U+1680",
   "U+2000", "U+2001", "U+2002", "U+2003", "U+2004", "U+2005", "U+2006",
   "U+2007", "U+2008", "U+2009", "U+200A", "U+2028", "U+2029", "U+202F",
   "U+205F", "U+3000"}

\* s.trim()
Strip(s) ==
  LET ink == {i \in 1..Len(s) : s[i] \notin Whitespace}
  IN  IF ink = {} THEN << >>
      ELSE SubSeq(s, CHOOSE i \in ink : \A j \in ink : i <= j,
                     CHOOSE i \in ink : \A j \in ink : j <= i)

NotUnderscore(c) == c # "_"

\* strip_underscores(s) applies
Strippable(s) ==
  /\ \E i \in 1..Len(s) : s[i] = "_"
  /\ s[1] # "_"
  /\ s[Len(s)] # "_"
  /\ ~\E i \in 1..(Len(s) - 1) : s[i] = "_" /\ s[i + 1] = "_"

StripUnderscores(s) == SelectSeq(s, NotUnderscore)

Lower(c) ==
  CASE c = "I" -> "i" [] c = "N" -> "n" [] c = "F" -> "f" [] c = "T" -> "t"
    [] c = "Y" -> "y" [] c = "A" -> "a" [] OTHER -> c

LowerSeq(s) == [i \in 1..Len(s) |-> Lower(s[i])]

Unsigned(s) ==
  IF s # << >> /\ Head(s) \in {"+", "-"} THEN Tail(s) ELSE s

Negative(s) == s # << >> /\ Head(s) = "-"

IsInfinity(s) ==
  LowerSeq(s) \in { <<"i", "n", "f">>, <<"i", "n", "f", "i", "n", "i", "t", "y">> }

IsNan(s) == LowerSeq(s) = <<"n", "a", "n">>

\* The index after the digits that start at i; i when no digit starts there
DigitsEnd(s, i) ==
  IF i > Len(s) THEN i
  ELSE CHOOSE j \in i..(Len(s) + 1) :
         /\ j = Len(s) + 1 \/ s[j] \notin Digits
         /\ \A n \in i..(j - 1) : s[n] \in Digits

\* The places of a decimal literal: end of the integer digits, whether a
\* dot follows, end of the fraction digits, whether an exponent follows,
\* start and end of the exponent digits
IsAt(s, i, chars) == i <= Len(s) /\ s[i] \in chars

\* Where the digits of an exponent after place i start
ExponentStart(s, i) ==
  IF IsAt(s, i, {"e", "E"}) /\ IsAt(s, i + 1, {"+", "-"}) THEN i + 2
  ELSE i + 1

FractionPlaces(s, i1, i2) ==
  [int |-> i1, dot |-> IsAt(s, i1, {"."}), frac |-> i2,
   exp |-> IsAt(s, i2, {"e", "E"}), e1 |-> ExponentStart(s, i2),
   e2 |-> IF IsAt(s, i2, {"e", "E"}) THEN DigitsEnd(s, ExponentStart(s, i2))
          ELSE i2]

DotPlaces(s, i1) ==
  FractionPlaces(s, i1,
                 IF IsAt(s, i1, {"."}) THEN DigitsEnd(s, i1 + 1) ELSE i1)

Places(s) == DotPlaces(s, DigitsEnd(s, 1))

WellPlaced(s, p) ==
  /\ p.int > 1 \/ (p.dot /\ p.frac > p.int + 1)
  /\ p.exp => p.e2 > p.e1
  /\ p.e2 = Len(s) + 1

IsDecimal(s) == WellPlaced(s, Places(s))

\* A float literal: an optional sign, then inf, infinity or nan in any
\* case, or digits with an optional fraction and exponent
IsLiteral(s) ==
  \/ IsInfinity(Unsigned(s))
  \/ IsNan(Unsigned(s))
  \/ IsDecimal(Unsigned(s))

IsFloatString(chars) ==
  \/ IsLiteral(Strip(chars))
  \/ Strippable(chars) /\ IsLiteral(StripUnderscores(chars))

\* The number the digits s[i..j-1] spell
RECURSIVE DigitsNumber(_, _, _)
DigitsNumber(s, i, j) ==
  IF j <= i THEN << >>
  ELSE IF j = i + 1 THEN Num(DigitValue(s[i]))
  ELSE LET h == (i + j) \div 2
           hi == DigitsNumber(s, i, h)
       IN  IF Len(hi) >= 0
             THEN Add(TimesPow10(hi, j - h), DigitsNumber(s, h, j))
           ELSE hi

\* An exponent is cut at 2^30, far beyond those that matter
ExponentCap == 2 ^ 30

Capped(a) ==
  IF Len(a) > 2 THEN ExponentCap
  ELSE IF a = << >> THEN 0
  ELSE IF Len(a) = 1 THEN a[1]
  ELSE a[1] + Base * a[2]

\* The double nearest to d * 10^p: infinite from 10^309 on, zero below
\* 10^-330
Nearest10(neg, d, p) ==
  IF d = << >> THEN Zero
  ELSE IF p > 400 THEN Inf(neg)
  ELSE IF BitLen(d) \div 3 + 1 + p < 0 - 330 THEN Zero
  ELSE FromDecimal(neg, d, p)

\* The digits before and after the dot as one number, and how many stand
\* after it
Mantissa(s, p, count) ==
  Add(TimesPow10(DigitsNumber(s, 1, p.int), count),
      DigitsNumber(s, p.int + 1, p.int + 1 + count))

Exponent(s, p) ==
  IF ~p.exp THEN 0
  ELSE IF s[p.e1 - 1] = "-" THEN 0 - Capped(DigitsNumber(s, p.e1, p.e2))
  ELSE Capped(DigitsNumber(s, p.e1, p.e2))

PlacedValue(neg, s, p, count) ==
  Nearest10(neg, Mantissa(s, p, count), Exponent(s, p) - count)

PlacesValue(neg, s, p) ==
  PlacedValue(neg, s, p, IF p.dot THEN p.frac - p.int - 1 ELSE 0)

DecimalValue(neg, s) == PlacesValue(neg, s, Places(s))

LiteralValue(s) ==
  IF IsNan(Unsigned(s)) THEN NaN
  ELSE IF IsInfinity(Unsigned(s)) THEN Inf(Negative(s))
  ELSE DecimalValue(Negative(s), Unsigned(s))

\* The string that is parsed: the trimmed one when it is a literal
Parsed(chars, trimmed) ==
  IF IsLiteral(trimmed) THEN trimmed ELSE StripUnderscores(chars)

ParseFloat(chars) == LiteralValue(Parsed(chars, Strip(chars)))

\* A str field accepts a JSON string and nothing else
StrFieldValid(p, f) == f \in DOMAIN p /\ p[f].j = "string"

\* The float field declared Optional[float] = None instead
FloatFieldValidNullable(p, f) ==
  f \in DOMAIN p =>
    \/ p[f].j \in {"number", "NaN", "null"}
    \/ p[f].j = "string" /\ IsFloatString(p[f].s)

\* A float field accepts a JSON number, and a string that spells a float;
\* null and a missing key are refused (the field is not Optional).
FloatFieldValid(p, f) ==
  /\ f \in DOMAIN p
  /\ \/ p[f].j \in {"number", "NaN"}
     \/ p[f].j = "string" /\ IsFloatString(p[f].s)

FloatFieldValue(v) ==
  CASE v.j = "number" -> v.x
    [] v.j = "NaN" -> NaN
    [] v.j = "string" -> ParseFloat(v.s)
    [] v.j = "null" -> None

\* The fields of payload p that fail validation
InvalidFields(p) ==
  {f \in StrFields : ~StrFieldValid(p, f)} \cup
  {f \in FloatFields : ~FloatFieldValid(p, f)}

\* The ObesityInput instance built from a payload that validates
ObesityInput(p) ==
  [f \in Fields |->
     IF f \in StrFields THEN p[f].s
     ELSE IF f \in DOMAIN p THEN FloatFieldValue(p[f]) ELSE None]

(***************************************************************************)
(* Module-level tables                                                     *)
(***************************************************************************)
ColumnsOrder ==
  << "Gender", "Age", "Height", "Weight", "family_history_with_overweight",
     "FAVC", "FCVC", "NCP", "CAEC", "SMOKE", "CH2O", "SCC", "FAF", "TUE",
     "CALC", "MTRANS" >>

ObesityMap ==
  [l \in {"insufficient weight", "normal weight", "overweight level i",
          "overweight level ii", "obesity type i", "obesity type ii",
          "obesity type iii"} |->
     CASE l = "insufficient weight" -> 0
       [] l = "normal weight" -> 1
       [] l = "overweight level i" -> 2
       [] l = "overweight level ii" -> 3
       [] l = "obesity type i" -> 4
       [] l = "obesity type ii" -> 5
       [] l = "obesity type iii" -> 6]

\* {v: k for k, v in m.items()}, for a map m whose values are distinct
ReverseMap(m) ==
  [v \in {m[l] : l \in DOMAIN m} |-> CHOOSE l \in DOMAIN m : m[l] = v]

\* The value a table not yet defined holds
Unset == << >>

(***************************************************************************)
(* Rounding                                                                *)
(***************************************************************************)
\* q / 2^n truncated
RoundDown(q, n) == FloorShift(q, n).q

\* q / 2^n rounded to the nearest integer, a tie to the even one
RoundHalfEven(q, n) ==
  IF n = 0 THEN q ELSE RoundHalf(FloorShift(q, n - 1), FALSE)

\* The nearest integer of m * 2^e scaled by k
Nearest(x, k) ==
  IF x.m = << >> THEN << >>
  ELSE IF x.e >= 0 THEN ShiftLeft(MulAdd(x.m, k, 0), x.e)
  ELSE RoundHalfEven(MulAdd(x.m, k, 0), 0 - x.e)

\* x * 100
Times100(x) ==
  CASE x.k = "nan" -> NaN
    [] x.k = "inf" -> x
    [] x.k = "float" -> Round53(x.neg, MulAdd(x.m, 100, 0), x.e, FALSE)

\* round(x, 1): the double nearest to the nearest tenth of x
Round1(x) ==
  CASE x.k = "nan" -> NaN
    [] x.k = "inf" -> x
    [] x.k = "float" -> FromDecimal(x.neg, Nearest(x, 10), 0 - 1)

RoundRaises(x) == x.k \in {"nan", "inf", "NA"}

IntRound(x) ==
  CASE x.k = "int" -> x
    [] x.k = "float" -> BigInt(x.neg, Nearest(x, 1))

(***************************************************************************)
(* predict_obesity: normalization of the request's dict                    *)
(*                                                                         *)
(* dicts maps each request to the local input_data_dict of its handler.    *)
(***************************************************************************)
\* input_data_dict[key] = value, in every handler's dict at once
SetItemShared(dicts, r, key, value) ==
  [x \in DOMAIN dicts |->
     IF dicts[x] = None THEN None ELSE [dicts[x] EXCEPT ![key] = value]]

\* input_data_dict[key] = value, in the dict of request r's handler
SetItem(dicts, r, key, value) == [dicts EXCEPT ![r][key] = value]

\* data.dict(): a new dict holding the fields of the validated record
ToDict(record) == [f \in Fields |-> record[f]]

\* None * 100 and round(None, 1) raise TypeError
ArithRaises(x) == x.k = "None"

\* Lines 76 and 77
HeightStep(dicts, r) ==
  SetItem(dicts, r, "Height", Round1(Times100(dicts[r]["Height"])))

WeightStep(dicts, r) == SetItem(dicts, r, "Weight", Round1(dicts[r]["Weight"]))

AgeStep(dicts, r) == SetItem(dicts, r, "Age", Round1(dicts[r]["Age"]))

IntCols == << "FCVC", "NCP", "CH2O", "FAF", "TUE" >>

\* The loop over the five columns from column i on; it stops at the first
\* column whose rounding raises
RECURSIVE RoundColumns(_, _, _)
RoundColumns(dicts, r, i) ==
  IF i > Len(IntCols) THEN [dicts |-> dicts, raised |-> FALSE]
  ELSE LET col == IntCols[i]
           v == dicts[r][col]
       IN  IF v = None THEN RoundColumns(SetItem(dicts, r, col, NA), r, i + 1)
           ELSE IF RoundRaises(v) THEN [dicts |-> dicts, raised |-> TRUE]
           ELSE RoundColumns(SetItem(dicts, r, col, IntRound(v)), r, i + 1)

\* The if/elif chain with the bike branch writing 'motorbike'
MTRANSStepTypo(dicts, r) ==
  LET m == dicts[r]["MTRANS"]
  IN  IF m = "automobile" THEN SetItem(dicts, r, "MTRANS", "car")
      ELSE IF m = "motorbike" THEN SetItem(dicts, r, "MTRANS", "motorcycle")
      ELSE IF m = "bike" THEN SetItem(dicts, r, "MTRANS", "motorbike")
      ELSE IF m = "public_transportation"
             THEN SetItem(dicts, r, "MTRANS", "public transport")
      ELSE dicts

MTRANSStep(dicts, r) ==
  LET m == dicts[r]["MTRANS"]
  IN  IF m = "automobile" THEN SetItem(dicts, r, "MTRANS", "car")
      ELSE IF m = "motorbike" THEN SetItem(dicts, r, "MTRANS", "motorcycle")
      ELSE IF m = "bike" THEN SetItem(dicts, r, "MTRANS", "bicycle")
      ELSE IF m = "public_transportation"
             THEN SetItem(dicts, r, "MTRANS", "public transport")
      ELSE dicts

CAECStep(dicts, r) ==
  IF dicts[r]["CAEC"] = "no" THEN SetItem(dicts, r, "CAEC", "never")
  ELSE dicts

\* The CALC statement testing the CAEC key
CALCStepTestsCAEC(dicts, r) ==
  IF dicts[r]["CAEC"] = "no" THEN SetItem(dicts, r, "CALC", "never")
  ELSE dicts

CALCStep(dicts, r) ==
  IF dicts[r]["CALC"] = "no" THEN SetItem(dicts, r, "CALC", "never")
  ELSE dicts

\* Lines 76-105 on request r's dict: the dicts afterwards, and whether an
\* exception left the try block.  Each operator takes the dicts the lines
\* before it have left.
\* Lines 91-105
FromMTRANS(rounded, r) ==
  IF rounded.raised THEN rounded
  ELSE [dicts |-> CALCStep(CAECStep(MTRANSStep(rounded.dicts, r), r), r),
        raised |-> FALSE]

\* Lines 80-105
FromAge(dicts, r) ==
  IF ArithRaises(dicts[r]["Age"]) THEN [dicts |-> dicts, raised |-> TRUE]
  ELSE FromMTRANS(RoundColumns(AgeStep(dicts, r), r, 1), r)

\* Lines 79-105
FromWeight(dicts, r) ==
  IF ArithRaises(dicts[r]["Weight"]) THEN [dicts |-> dicts, raised |-> TRUE]
  ELSE FromAge(WeightStep(dicts, r), r)

NormalizeDict(dicts, r) ==
  IF ArithRaises(dicts[r]["Height"]) THEN [dicts |-> dicts, raised |-> TRUE]
  ELSE FromWeight(HeightStep(dicts, r), r)

(***************************************************************************)
(* The one-row DataFrame                                                   *)
(***************************************************************************)
\* The integers of 64 bits: -2^63 .. 2^63 - 1
FitsInt64(v) ==
  LET top == ShiftLeft(Num(1), 63)
  IN  IF v.neg THEN LessEq(v.n, top) ELSE Less(v.n, top)

\* astype('Int64'): a nullable integer
AsInt64(v) == v

\* astype('Int64') raises on an int that no 64 bits hold
FrameRaises(d) ==
  \E i \in 1..Len(IntCols) :
    d[IntCols[i]].k = "int" /\ ~FitsInt64(d[IntCols[i]])

\* astype(str) of a value that is a str
AsStr(v) == v

InSeq(x, s) == \E i \in 1..Len(s) : s[i] = x

\* pd.DataFrame([d], columns=columns) followed by the two astype loops
DataFrame(d, columns) ==
  [columns |-> columns,
   row |-> [i \in 1..Len(columns) |->
              LET c == columns[i]
              IN  IF InSeq(c, IntCols) THEN AsInt64(d[c])
                  ELSE IF c \in StrFields THEN AsStr(d[c])
                  ELSE d[c]]]

\* df[c] of the one row
Column(df, c) == df.row[CHOOSE i \in 1..Len(df.columns) : df.columns[i] = c]

(***************************************************************************)
(* The pipeline artifact.  The pickled pipeline is an input of the         *)
(* program: an opaque deterministic function from the one-row frame to a   *)
(* class code, which may raise.  A candidate is given by the codes it      *)
(* answers for a light and a heavy row, whether it refuses a category      *)
(* outside its training vocabulary, and whether it raises on every row.    *)
(***************************************************************************)
Vocabulary ==
  [Gender |-> {"male", "female"},
   family_history_with_overweight |-> {"yes", "no"},
   FAVC |-> {"yes", "no"},
   CAEC |-> {"never", "sometimes", "frequently", "always"},
   SMOKE |-> {"yes", "no"},
   SCC |-> {"yes", "no"},
   CALC |-> {"never", "sometimes", "frequently", "always"},
   MTRANS |-> {"walking", "bicycle", "motorcycle", "car", "public transport"}]

Pipeline(light, heavy, strict, broken) ==
  [light |-> light, heavy |-> heavy, strict |-> strict, broken |-> broken]

Pipelines ==
  { Pipeline(1, 4, TRUE, FALSE),
    Pipeline(0, 7, FALSE, FALSE),
    Pipeline(2, 3, FALSE, FALSE),
    Pipeline(0 - 1, 6, FALSE, FALSE),
    Pipeline(0, 0, FALSE, TRUE) }

InVocabulary(df) ==
  /\ \A c \in StrFields : Column(df, c) \in Vocabulary[c]
  /\ \A i \in 1..Len(IntCols) : Column(df, IntCols[i]) # NA

\* The magnitude of a finite double x and the natural n, on one scale
Scaled(x, n) ==
  IF x.e >= 0 THEN [x |-> ShiftLeft(x.m, x.e), n |-> Num(n)]
  ELSE [x |-> x.m, n |-> ShiftLeft(Num(n), 0 - x.e)]

\* x >= n and x <= n, for a natural n > 0; no comparison holds of NaN
AtLeast(x, n) ==
  CASE x.k = "nan" -> FALSE
    [] x.k = "inf" -> ~x.neg
    [] x.k = "float" -> ~x.neg /\ LessEq(Scaled(x, n).n, Scaled(x, n).x)

AtMost(x, n) ==
  CASE x.k = "nan" -> FALSE
    [] x.k = "inf" -> x.neg
    [] x.k = "float" -> x.neg \/ LessEq(Scaled(x, n).x, Scaled(x, n).n)

\* At least 100 kg at a height of at most 250 cm
Heavy(df) ==
  LET w == Column(df, "Weight")
      h == Column(df, "Height")
  IN  AtLeast(w, 100) /\ AtMost(h, 250)

\* model_pipeline.predict(input_df)[0]
PipelinePredict(p, df) ==
  IF p.broken \/ (p.strict /\ ~InVocabulary(df)) THEN [raised |-> TRUE]
  ELSE [raised |-> FALSE, value |-> IF Heavy(df) THEN p.heavy ELSE p.light]

(***************************************************************************)
(* predict_obesity: what it returns, and what FastAPI sends for it         *)
(***************************************************************************)
ModelNotLoaded == "Model not loaded. Server initialization failed."

PredictionFailed ==
  "An error occurred during prediction. Check server logs for details."

\* The message of the root route, in pieces: a character outside ASCII is
\* written by its code point
Welcome ==
  << "U+1F389", " Welcome to the Obesity Prediction API! ", "U+1F680",
     " Submit your health data to get instant insights." >>

\* obesity_map.get(prediction, ...): the table keyed by label is asked for a
\* code
LookupLabelWrongTable(map, prediction) == "Unknown Prediction"

\* reverse_obesity_map.get(prediction, "Unknown Prediction")
LookupLabel(map, prediction) ==
  IF prediction \in DOMAIN map THEN map[prediction] ELSE "Unknown Prediction"

PyDict(d) == [py |-> "dict", d |-> d]

\* return {"prediction_code": ..., "prediction_label": ...}
SuccessReturn(prediction, label) ==
  PyDict([prediction_code |-> prediction, prediction_label |-> label])

\* return {"error": message}, 500 -- a tuple of a dict and an int
ErrorReturn(message) ==
  [py |-> "tuple", t |-> << PyDict([error |-> message]), 500 >>]

\* The JSON text of a returned value: a dict is an object, a tuple an array
ToJSON(ret) ==
  IF ret.py = "dict" THEN [json |-> "object", obj |-> ret.d]
  ELSE [json |-> "array",
        items |-> << [json |-> "object", obj |-> ret.t[1].d], ret.t[2] >>]

\* The response FastAPI builds from the value a path function returns: the
\* route's default status with the value as JSON body
RouteResponse(ret) == [status |-> 200, body |-> ToJSON(ret)]

\* A JSON value that is read as a NaN or an infinity
NonFinite(v) ==
  \/ v.j = "NaN"
  \/ v.j = "number" /\ v.x.k \in {"nan", "inf"}

\* The error report echoes the value of key f: as the input of the refused
\* field f, or within the whole body, the input of a missing field
Echoed(p, f) ==
  /\ f \in DOMAIN p
  /\ \/ f \in InvalidFields(p)
     \/ \E g \in InvalidFields(p) : g \notin DOMAIN p

\* The response to a body that ObesityInput refuses: the error report with
\* status 422, or the server's 500 when the report cannot be written as
\* JSON, because an input it echoes is a NaN or an infinity
ValidationResponse(p) ==
  IF \E f \in DOMAIN p : Echoed(p, f) /\ NonFinite(p[f])
    THEN [status |-> 500,
          body |-> [json |-> "invalid", text |-> "Internal Server Error"]]
  ELSE [status |-> 422,
        body |-> [json |-> "object", obj |-> [detail |-> InvalidFields(p)]]]

(***************************************************************************)
(* The form front end                                                      *)
(***************************************************************************)
\* float(age): the slider gives an int
IntToFloat(i) == Dyadic(i, 0)

\* input_data, from the values of the widgets
InputData(w) ==
  [Gender |-> JStr(w.gender),
   Age |-> JNum(IntToFloat(w.age)),
   Height |-> JNum(w.height),
   Weight |-> JNum(w.weight),
   family_history_with_overweight |-> JStr(w.family_history),
   FAVC |-> JStr(w.favc),
   FCVC |-> JNum(w.fcvc),
   NCP |-> JNum(w.ncp),
   CAEC |-> JStr(w.caec),
   SMOKE |-> JStr(w.smoke),
   CH2O |-> JNum(w.ch2o),
   SCC |-> JStr(w.scc),
   FAF |-> JNum(w.faf),
   TUE |-> JNum(w.tue),
   CALC |-> JStr(w.calc),
   MTRANS |-> JStr(w.mtrans)]

\* The chain with its last branch testing == 4
AdvisoryOnlyFour(code) ==
  IF code = 0 THEN "below healthy range"
  ELSE IF code = 1 THEN "healthy"
  ELSE IF code = 2 THEN "overweight level I"
  ELSE IF code = 3 THEN "overweight level II"
  ELSE IF code = 4 THEN "obesity range"
  ELSE "none"

\* The if/elif chain on prediction_code
Advisory(code) ==
  IF code = 0 THEN "below healthy range"
  ELSE IF code = 1 THEN "healthy"
  ELSE IF code = 2 THEN "overweight level I"
  ELSE IF code = 3 THEN "overweight level II"
  ELSE IF code >= 4 THEN "obesity range"
  ELSE "none"

ConnectionErrorShown == [state |-> "connection error"]

\* What the page shows for a response that arrived (lines 98-128)
Render(resp) ==
  IF resp.status >= 400
    THEN [state |-> "http error", status |-> resp.status, text |-> resp.body]
  ELSE IF resp.body.json = "invalid" THEN [state |-> "data error"]
  ELSE IF resp.body.json # "object" THEN [state |-> "unexpected error"]
  ELSE IF "prediction_label" \notin DOMAIN resp.body.obj
    THEN [state |-> "unexpected error"]
  ELSE IF "prediction_code" \notin DOMAIN resp.body.obj
    THEN [state |-> "unexpected error"]
  ELSE [state |-> "success",
        label |-> resp.body.obj.prediction_label,
        code |-> resp.body.obj.prediction_code,
        advisory |-> Advisory(resp.body.obj.prediction_code)]

(***************************************************************************)
(* Inputs                                                                  *)
(***************************************************************************)
\* The widgets: a male of 25, 1.75 m, 65 kg
BaseForm ==
  [gender |-> "male", age |-> 25, height |-> Float(56), weight |-> Float(65 * 32),
   family_history |-> "no", favc |-> "no", fcvc |-> Float(64), ncp |-> Float(96),
   caec |-> "no", smoke |-> "no", ch2o |-> Float(64), scc |-> "no",
   faf |-> Float(32), tue |-> Float(32), calc |-> "never", mtrans |-> "automobile"]

\* The forms a user submits: 65 kg going by automobile, 120.25 kg by bike
Forms ==
  { BaseForm, [BaseForm EXCEPT !.weight = Float(120 * 32 + 8), !.mtrans = "bike"] }

BasePayload == InputData(BaseForm)

Without(p, f) == [g \in (DOMAIN p) \ {f} |-> p[g]]

\* The bodies other clients post
ApiPayloads ==
  { Without(BasePayload, "Gender"),
    [BasePayload EXCEPT !.Gender = JStr("other")],
    [BasePayload EXCEPT !.Age = JStr(<<"2", "5">>)],
    [BasePayload EXCEPT !.Age = JStr(<<"a", "b", "c">>)],
    [BasePayload EXCEPT !.FCVC = JNaN],
    Without([BasePayload EXCEPT !.Age = JNaN], "Gender"),
    [BasePayload EXCEPT !.FCVC = JNum(Float(80)), !.Height = JNum(Float(54)),
                        !.Weight = JNum(Float(120 * 32 + 8))] }

\* What answers at API_URL in place of the service: a tunnel or proxy with
\* an error status, or with a page that is no JSON
GatewayResponses ==
  { [status |-> 502, body |-> [json |-> "invalid", text |-> "Bad Gateway"]],
    [status |-> 200, body |-> [json |-> "invalid", text |-> "<html>"]] }

(***************************************************************************)
(* State                                                                   *)
(***************************************************************************)
VARIABLES
  process,                \* "importing", "defining", "serving", "crashed"
  model_pipeline,         \* None, or the loaded pipeline
  original_columns_order, \* module globals of apps.py
  obesity_map,
  reverse_obesity_map,
  root_reply,             \* the last answer of GET /, or None
  pc,                     \* per request: where it is
  sender,                 \* per request: "none", "collector", "api"
  payload,                \* per request: the JSON body posted
  data,                   \* per request: the validated ObesityInput
  input_data_dict,        \* per request: the handler's local dict
  input_df,               \* per request: the handler's local frame
  response,               \* per request: the HTTP response
  display                 \* per request: what the page shows

globals ==
  << model_pipeline, original_columns_order, obesity_map, reverse_obesity_map >>

locals == << data, input_data_dict, input_df >>

vars ==
  << process, model_pipeline, original_columns_order, obesity_map,
     reverse_obesity_map, root_reply, pc, sender, payload, data,
     input_data_dict, input_df, response, display >>

NoRequests ==
  /\ pc = [r \in Requests |-> "idle"]
  /\ sender = [r \in Requests |-> "none"]
  /\ payload = [r \in Requests |-> None]
  /\ data = [r \in Requests |-> None]
  /\ input_data_dict = [r \in Requests |-> None]
  /\ input_df = [r \in Requests |-> None]
  /\ response = [r \in Requests |-> None]
  /\ display = [r \in Requests |-> None]

Init ==
  /\ process = "importing"
  /\ model_pipeline = None
  /\ original_columns_order = Unset
  /\ obesity_map = Unset
  /\ reverse_obesity_map = Unset
  /\ root_reply = None
  /\ NoRequests

(***************************************************************************)
(* Import of apps.py                                                       *)
(***************************************************************************)
\* Both except clauses re-raise: the import fails and the server never runs
ProcessAfterLoadError == "crashed"

\* What joblib.load can return: the object pickled in the file, which is a
\* pipeline or, for a file that holds None, None
Artifacts == Pipelines \cup {None}

\* joblib.load returns: model_pipeline is what the file held
LoadModel ==
  /\ process = "importing"
  /\ \E p \in Artifacts : model_pipeline' = p
  /\ process' = "defining"
  /\ UNCHANGED << original_columns_order, obesity_map, reverse_obesity_map,
                  root_reply, pc, sender, payload, locals, response, display >>

\* joblib.load raises FileNotFoundError, or any other exception
LoadFails ==
  /\ process = "importing"
  /\ process' = ProcessAfterLoadError
  /\ UNCHANGED << globals, root_reply, pc, sender, payload, locals, response,
                  display >>

\* The rest of the module: the schema, the tables and the routes
DefineGlobals ==
  /\ process = "defining"
  /\ original_columns_order' = ColumnsOrder
  /\ obesity_map' = ObesityMap
  /\ reverse_obesity_map' = ReverseMap(ObesityMap)
  /\ process' = "serving"
  /\ UNCHANGED << model_pipeline, root_reply, pc, sender, payload, locals,
                  response, display >>

(***************************************************************************)
(* Routes                                                                  *)
(***************************************************************************)
read_root ==
  /\ process = "serving"
  /\ root_reply = None
  /\ root_reply' = RouteResponse(PyDict([message |-> Welcome]))
  /\ UNCHANGED << process, globals, pc, sender, payload, locals, response,
                  display >>

\* Request ids are handed out in order
NextToSend(r) ==
  /\ pc[r] = "idle"
  /\ \A q \in Requests : q < r => pc[q] # "idle"

\* The button of the page: requests.post(API_URL, json=input_data).  The
\* post fails to connect, reaches the service, or is answered by a gateway.
CollectorPredict(r) ==
  /\ NextToSend(r)
  /\ \E w \in Forms :
       /\ sender' = [sender EXCEPT ![r] = "collector"]
       /\ payload' = [payload EXCEPT ![r] = InputData(w)]
  /\ \/ /\ pc' = [pc EXCEPT ![r] = "done"]
        /\ display' = [display EXCEPT ![r] = ConnectionErrorShown]
        /\ UNCHANGED response
     \/ /\ process = "serving"
        /\ pc' = [pc EXCEPT ![r] = "received"]
        /\ UNCHANGED << response, display >>
     \/ /\ \E g \in GatewayResponses : response' = [response EXCEPT ![r] = g]
        /\ pc' = [pc EXCEPT ![r] = "responded"]
        /\ UNCHANGED display
  /\ UNCHANGED << process, globals, root_reply, locals >>

\* Another client posts a body to /predict
ApiPost(r) ==
  /\ NextToSend(r)
  /\ \E p \in ApiPayloads :
       /\ sender' = [sender EXCEPT ![r] = "api"]
       /\ payload' = [payload EXCEPT ![r] = p]
  /\ IF process = "serving"
       THEN pc' = [pc EXCEPT ![r] = "received"]
       ELSE pc' = [pc EXCEPT ![r] = "done"]
  /\ UNCHANGED << process, globals, root_reply, locals, response, display >>

\* FastAPI parses the body into the data: ObesityInput parameter, or answers
\* 422 without calling predict_obesity
Validate(r) ==
  /\ process = "serving"
  /\ pc[r] = "received"
  /\ IF InvalidFields(payload[r]) = {}
       THEN /\ data' = [data EXCEPT ![r] = ObesityInput(payload[r])]
            /\ pc' = [pc EXCEPT ![r] = "validated"]
            /\ UNCHANGED response
       ELSE /\ response' =
                 [response EXCEPT ![r] = ValidationResponse(payload[r])]
            /\ pc' = [pc EXCEPT ![r] = "responded"]
            /\ UNCHANGED data
  /\ UNCHANGED << process, globals, root_reply, sender, payload,
                  input_data_dict, input_df, display >>

\* predict_obesity, lines 68-72: the guard on the model, then data.dict()
Enter(r) ==
  /\ process = "serving"
  /\ pc[r] = "validated"
  /\ IF model_pipeline = None
       THEN /\ response' =
                 [response EXCEPT
                    ![r] = RouteResponse(ErrorReturn(ModelNotLoaded))]
            /\ pc' = [pc EXCEPT ![r] = "responded"]
            /\ UNCHANGED input_data_dict
       ELSE /\ input_data_dict' =
                 [input_data_dict EXCEPT ![r] = ToDict(data[r])]
            /\ pc' = [pc EXCEPT ![r] = "entered"]
            /\ UNCHANGED response
  /\ UNCHANGED << process, globals, root_reply, sender, payload, data,
                  input_df, display >>

\* Lines 107-113 on the dicts n that the lines before have left, and lines
\* 122-125 when a statement has raised
FrameOrError(r, n) ==
  /\ input_data_dict' = n.dicts
  /\ IF n.raised \/ FrameRaises(n.dicts[r])
       THEN /\ response' =
                 [response EXCEPT
                    ![r] = RouteResponse(ErrorReturn(PredictionFailed))]
            /\ pc' = [pc EXCEPT ![r] = "responded"]
            /\ UNCHANGED input_df
       ELSE /\ input_df' =
                 [input_df EXCEPT
                    ![r] = DataFrame(n.dicts[r], original_columns_order)]
            /\ pc' = [pc EXCEPT ![r] = "normalized"]
            /\ UNCHANGED response

\* predict_obesity, lines 74-113, and lines 122-125 when a statement raises
Normalize(r) ==
  /\ process = "serving"
  /\ pc[r] = "entered"
  /\ FrameOrError(r, NormalizeDict(input_data_dict, r))
  /\ UNCHANGED << process, globals, root_reply, sender, payload, data,
                  display >>

\* predict_obesity, lines 115-121, and lines 122-125 when predict raises
Predict(r) ==
  /\ process = "serving"
  /\ pc[r] = "normalized"
  /\ LET out == PipelinePredict(model_pipeline, input_df[r])
     IN  response' =
           [response EXCEPT
              ![r] =
                IF out.raised
                  THEN RouteResponse(ErrorReturn(PredictionFailed))
                  ELSE RouteResponse(
                         SuccessReturn(
                           out.value,
                           LookupLabel(reverse_obesity_map, out.value)))]
  /\ pc' = [pc EXCEPT ![r] = "responded"]
  /\ UNCHANGED << process, globals, root_reply, sender, payload, locals,
                  display >>

\* The page handles the response it got (lines 98-128)
Show(r) ==
  /\ pc[r] = "responded"
  /\ sender[r] = "collector"
  /\ display' = [display EXCEPT ![r] = Render(response[r])]
  /\ pc' = [pc EXCEPT ![r] = "done"]
  /\ UNCHANGED << process, globals, root_reply, sender, payload, locals,
                  response >>

\* The service and the clients that post bodies of their own
Next ==
  \/ LoadModel
  \/ LoadFails
  \/ DefineGlobals
  \/ read_root
  \/ \E r \in Requests :
       \/ ApiPost(r)
       \/ Validate(r)
       \/ Enter(r)
       \/ Normalize(r)
       \/ Predict(r)

Spec == Init /\ [][Next]_vars

\* The service and the page as its client
NextPage ==
  \/ LoadModel
  \/ LoadFails
  \/ DefineGlobals
  \/ \E r \in Requests :
       \/ CollectorPredict(r)
       \/ Validate(r)
       \/ Enter(r)
       \/ Normalize(r)
       \/ Predict(r)
       \/ Show(r)

SpecPage == Init /\ [][NextPage]_vars

(***************************************************************************)
(* The normalization alone: predict_obesity called on records drawn from   *)
(* bounded sets, with the service up.  A record may hold None in the five  *)
(* columns the handler tests for None (a record built without validation;  *)
(* the route refuses a null).                                              *)
(***************************************************************************)
BaseRecord == ObesityInput(BasePayload)

MtransValues ==
  {"automobile", "motorbike", "bike", "public_transportation", "car",
   "motorcycle", "bicycle", "public transport", "walking", "Automobile"}

NoNeverValues == {"no", "never", "sometimes"}

\* 1.75, 1.6875 and 1.5625 (ties at the first decimal of the centimetres),
\* 1.7, 1.715 and 1.005 (inexact doubles), 1e307 (whose centimetres are
\* beyond every double), NaN and infinity
HeightValues ==
  {Float(56), Float(54), Float(50), Decimal(17, 1), Decimal(1715, 3),
   Decimal(1005, 3), FromDecimal(FALSE, Num(1), 307), NaN, Inf(FALSE)}

\* 65, 65.25 (a tie), 120.78125, 65.3, 65.35 and 0.15 (inexact doubles),
\* -0.04 and minus infinity
WeightValues ==
  {Float(65 * 32), Float(65 * 32 + 8), Float(120 * 32 + 25), Decimal(653, 1),
   Decimal(6535, 2), Decimal(15, 2), Decimal(0 - 4, 2), Inf(TRUE)}

\* 25, 25.45 and 2.675 (inexact doubles)
AgeValues == {Dyadic(25, 0), Decimal(2545, 2), Decimal(2675, 3)}

\* absent, 2, 2.5 and 3.5 (ties), 2.75, 0.25, -0.5, 2.7 (an inexact double),
\* -2^63 (the least int of 64 bits), 2^63 and 1e30 (ints that no 64 bits
\* hold), NaN and infinity
FcvcValues ==
  {None, Float(64), Float(80), Float(112), Float(88), Float(8),
   Float(0 - 16), Decimal(27, 1), Round53(TRUE, Num(1), 63, FALSE),
   Round53(FALSE, Num(1), 63, FALSE), FromDecimal(FALSE, Num(1), 30), NaN,
   Inf(FALSE)}

\* The records: the form's numbers under every spelling of the three
\* normalized categories, and the form's categories under every number
NormRecords ==
  { [BaseRecord EXCEPT !.MTRANS = m, !.CAEC = c1, !.CALC = c2, !.FCVC = v] :
      m \in MtransValues, c1 \in NoNeverValues, c2 \in NoNeverValues,
      v \in {None, Float(64)} }
  \cup
  { [BaseRecord EXCEPT !.Height = h, !.Weight = w, !.Age = a, !.FCVC = v,
                       !.TUE = t] :
      h \in HeightValues, w \in WeightValues, a \in AgeValues,
      v \in FcvcValues, t \in {None, Float(32)} }

InitNorm ==
  /\ process = "serving"
  /\ model_pipeline \in {Pipeline(1, 4, TRUE, FALSE), Pipeline(0, 7, FALSE, FALSE)}
  /\ original_columns_order = ColumnsOrder
  /\ obesity_map = ObesityMap
  /\ reverse_obesity_map = ReverseMap(ObesityMap)
  /\ root_reply = None
  /\ pc = [r \in Requests |-> IF r = 1 THEN "validated" ELSE "idle"]
  /\ sender = [r \in Requests |-> IF r = 1 THEN "api" ELSE "none"]
  /\ payload = [r \in Requests |-> None]
  /\ \E rec \in NormRecords :
       data = [r \in Requests |-> IF r = 1 THEN rec ELSE None]
  /\ input_data_dict = [r \in Requests |-> None]
  /\ input_df = [r \in Requests |-> None]
  /\ response = [r \in Requests |-> None]
  /\ display = [r \in Requests |-> None]

NextNorm == \E r \in Requests : Enter(r) \/ Normalize(r) \/ Predict(r)

SpecNorm == InitNorm /\ [][NextNorm]_vars

(***************************************************************************)
(* The validation alone: the service is up and the first client has posted *)
(* a body drawn from bounded sets; every other client posts the form's     *)
(* values with a Gender of its own.                                        *)
(***************************************************************************)
\* Strings that spell a number: '25', ' 25 ', '30', '65.5', '1e2', '-1',
\* '.5', '1_0', '1.75', 'inf', 'NaN', '65.35', '0.01', '0.15', '3.14',
\* '1e-2', '1e10', '99999999999', '1e400', '1e-400', and '25' after a
\* vertical tab, after a no-break space, and before a thin space
NumberTexts ==
  { <<"2", "5">>,
    <<" ", "2", "5", " ">>,
    <<"3", "0">>,
    <<"6", "5", ".", "5">>,
    <<"1", "e", "2">>,
    <<"-", "1">>,
    <<".", "5">>,
    <<"1", "_", "0">>,
    <<"1", ".", "7", "5">>,
    <<"i", "n", "f">>,
    <<"N", "a", "N">>,
    <<"6", "5", ".", "3", "5">>,
    <<"0", ".", "0", "1">>,
    <<"0", ".", "1", "5">>,
    <<"3", ".", "1", "4">>,
    <<"1", "e", "-", "2">>,
    <<"1", "e", "1", "0">>,
    <<"9", "9", "9", "9", "9", "9", "9", "9", "9", "9", "9">>,
    <<"1", "e", "4", "0", "0">>,
    <<"1", "e", "-", "4", "0", "0">>,
    <<"U+000B", "2", "5">>,
    <<"U+00A0", "2", "5">>,
    <<"2", "5", "U+2009">> }

\* Strings that spell none: 'abc', '', '1.2.3', '1e', '2 5', '--1', '1__0',
\* '_1', '1_'
NotNumberTexts ==
  { <<"a", "b", "c">>,
    << >>,
    <<"1", ".", "2", ".", "3">>,
    <<"1", "e">>,
    <<"2", " ", "5">>,
    <<"-", "-", "1">>,
    <<"1", "_", "_", "0">>,
    <<"_", "1">>,
    <<"1", "_">> }

\* Strings that pass only because single underscores are removed wherever
\* they stand: '1_.5', '1._5', '1e_5', '+_1', 'i_nf'
UnderscoredTexts ==
  { <<"1", "_", ".", "5">>,
    <<"1", ".", "_", "5">>,
    <<"1", "e", "_", "5">>,
    <<"+", "_", "1">>,
    <<"i", "_", "n", "f">> }

\* Strings of digits that are refused: ' 1_0 ' (underscores are removed from
\* the untrimmed string), '25' after U+001C (no White_Space character),
\* and 25 in Arabic-Indic digits
RefusedTexts ==
  { <<" ", "1", "_", "0", " ">>,
    <<"U+001C", "2", "5">>,
    <<"U+0662", "U+0665">> }

GenderOther == [BasePayload EXCEPT !.Gender = JStr("other")]

\* The bodies: the form's body with one field changed, and bodies that are
\* refused while they hold a NaN or an infinity
Bodies ==
  {BasePayload, GenderOther, [BasePayload EXCEPT !.MTRANS = JStr("teleport")]}
    \cup {Without(BasePayload, f) : f \in Fields}
    \cup {[BasePayload EXCEPT ![f] = JNull] : f \in Fields}
    \cup {[BasePayload EXCEPT ![f] = JNaN] : f \in {"Age", "FCVC", "Gender"}}
    \cup {[BasePayload EXCEPT ![f] = JNum(Inf(n))] :
            f \in {"Age", "Gender"}, n \in BOOLEAN}
    \cup {[BasePayload EXCEPT ![f] = JStr(t)] :
            f \in {"Age", "FCVC"},
            t \in NumberTexts \cup NotNumberTexts \cup UnderscoredTexts
                    \cup RefusedTexts}
    \cup {Without([BasePayload EXCEPT !.Age = v], "Gender") :
            v \in {JNaN, JNum(Inf(FALSE)), JStr(<<"n", "a", "n">>)}}
    \cup {[BasePayload EXCEPT !.Age = v, !.FCVC = JNaN] :
            v \in {JStr(<<"a", "b", "c">>), JNull}}
    \cup {[BasePayload EXCEPT !.Gender = JNum(Float(32))]}

InitBodies ==
  /\ process = "serving"
  /\ model_pipeline \in {None, Pipeline(1, 4, TRUE, FALSE), Pipeline(0, 7, FALSE, FALSE)}
  /\ original_columns_order = ColumnsOrder
  /\ obesity_map = ObesityMap
  /\ reverse_obesity_map = ReverseMap(ObesityMap)
  /\ root_reply = None
  /\ pc = [r \in Requests |-> "received"]
  /\ sender = [r \in Requests |-> "api"]
  /\ \E b \in Bodies :
       payload = [r \in Requests |-> IF r = 1 THEN b ELSE GenderOther]
  /\ data = [r \in Requests |-> None]
  /\ input_data_dict = [r \in Requests |-> None]
  /\ input_df = [r \in Requests |-> None]
  /\ response = [r \in Requests |-> None]
  /\ display = [r \in Requests |-> None]

NextBodies ==
  \E r \in Requests : Validate(r) \/ Enter(r) \/ Normalize(r) \/ Predict(r)

SpecBodies == InitBodies /\ [][NextBodies]_vars

(***************************************************************************)
(* Properties                                                              *)
(***************************************************************************)
Handled(r) == data[r] # None
Answered(r) == pc[r] \in {"responded", "done"} /\ response[r] # None

\* The body carries the message, as an object or inside an array
CarriesError(resp, message) ==
  \/ /\ resp.body.json = "object"
     /\ "error" \in DOMAIN resp.body.obj
     /\ resp.body.obj.error = message
  \/ /\ resp.body.json = "array"
     /\ resp.body.items[1].obj.error = message

\* C1 as stated: the service serves only with the model loaded: any request
\* being handled, and any answer of the root route, finds the model loaded,
\* and no response carries the 'Model not loaded' message.
ModelLoadedWheneverServing ==
  /\ process = "serving" => model_pipeline # None
  /\ \A r \in Requests :
       (pc[r] \in {"received", "validated", "entered", "normalized"}
          \/ Handled(r))
         => process = "serving" /\ model_pipeline # None
  /\ root_reply # None => model_pipeline # None
  /\ \A r \in Requests :
       response[r] # None => ~CarriesError(response[r], ModelNotLoaded)

\* A body with a field missing or null, or with a string that spells no
\* number in a float field
Unbuildable(p) ==
  \E f \in Fields :
    \/ f \notin DOMAIN p
    \/ p[f].j = "null"
    \/ f \in FloatFields /\ p[f].j = "string" /\ p[f].s \in NotNumberTexts

\* A body none of whose values is a NaN or an infinity
AllFinite(p) ==
  \A f \in DOMAIN p :
    /\ p[f].j # "NaN"
    /\ p[f].j = "number" => p[f].x.k = "float"

\* A body with a string in every str field and a number, or a string that
\* spells one, in every float field
Buildable(p) ==
  \A f \in Fields :
    /\ f \in DOMAIN p
    /\ f \in StrFields => p[f].j = "string"
    /\ f \in FloatFields =>
         \/ p[f].j \in {"number", "NaN"}
         \/ p[f].j = "string" /\ p[f].s \in NumberTexts

AllowedValues ==
  [Gender |-> {"male", "female"},
   family_history_with_overweight |-> {"yes", "no"},
   FAVC |-> {"yes", "no"},
   CAEC |-> {"no", "never", "sometimes", "frequently", "always"},
   SMOKE |-> {"yes", "no"},
   SCC |-> {"yes", "no"},
   CALC |-> {"no", "never", "sometimes", "frequently", "always"},
   MTRANS |-> {"walking", "bicycle", "bike", "motorcycle", "motorbike", "car",
               "automobile", "public transport", "public_transportation"}]

\* A body that conforms to the 16-field schema of the data model: buildable,
\* with every categorical value in its allowed set
Conforms(p) ==
  /\ Buildable(p)
  /\ \A f \in StrFields : p[f].s \in AllowedValues[f]

\* C2 as stated: no body that fails to conform (a missing field, a field of
\* the wrong type, a categorical value outside its allowed set) is ever
\* validated, normalized or passed to the model.
OnlyConformingBodiesHandled ==
  \A r \in Requests :
    (Handled(r) \/ input_data_dict[r] # None \/ input_df[r] # None)
      => Conforms(payload[r])

\* C2 as amended: a body with a missing field, a null field or a non-numeric
\* string in a float field is refused and is never validated, normalized or
\* passed to the model; the refusal is a 422, or a 500 in place of it when
\* the body holds a NaN or an infinity; a body of strings and numbers (or
\* numeric strings) that reaches the service is handled, whatever its
\* categorical values.
UnbuildableBodiesRejected ==
  \A r \in Requests :
    sender[r] # "none" =>
      /\ Unbuildable(payload[r]) =>
           /\ data[r] = None
           /\ input_data_dict[r] = None
           /\ input_df[r] = None
           /\ Answered(r) =>
                /\ response[r].status \in {422, 500}
                /\ AllFinite(payload[r]) => response[r].status = 422
      /\ (Buildable(payload[r]) /\ Answered(r)
            /\ response[r] \notin GatewayResponses)
           => Handled(r) /\ response[r].status = 200

\* C2 witness: a body whose Age is the string '1e' was answered 422, and a
\* body whose Gender is 'other' reached the model
NotNumberRejected ==
  /\ \E r \in Requests :
       /\ Answered(r)
       /\ "Age" \in DOMAIN payload[r]
       /\ payload[r]["Age"] = JStr(<<"1", "e">>)
       /\ response[r].status = 422
       /\ data[r] = None
  /\ \E r \in Requests :
       /\ Answered(r)
       /\ "Gender" \in DOMAIN payload[r]
       /\ payload[r]["Gender"] = JStr("other")
       /\ input_df[r] # None

\* The model raised on the frame of request r
InferenceRaised(r) ==
  /\ Answered(r)
  /\ input_df[r] # None
  /\ PipelinePredict(model_pipeline, input_df[r]).raised

\* C3 as stated: when the model raises on a normalized record the caller
\* receives an object with an "error" string field holding the generic
\* message, and the service goes on serving.
InferenceFailureIsErrorObject ==
  \A r \in Requests :
    InferenceRaised(r) =>
      /\ response[r].body.json = "object"
      /\ "error" \in DOMAIN response[r].body.obj
      /\ response[r].body.obj.error = PredictionFailed
      /\ process = "serving"

ExpectedLabel ==
  [c \in 0..6 |->
     CASE c = 0 -> "insufficient weight"
       [] c = 1 -> "normal weight"
       [] c = 2 -> "overweight level i"
       [] c = 3 -> "overweight level ii"
       [] c = 4 -> "obesity type i"
       [] c = 5 -> "obesity type ii"
       [] c = 6 -> "obesity type iii"]

\* The model answered a code for the frame of request r
InferenceAnswered(r) ==
  /\ Answered(r)
  /\ input_df[r] # None
  /\ ~PipelinePredict(model_pipeline, input_df[r]).raised

\* C4: the code-to-label table maps 0..6 one-to-one onto the seven labels,
\* and every code the model answers gives a success response, labelled from
\* the table when the code is in 0..6 and "Unknown Prediction" otherwise.
LabelLookupTotal ==
  /\ process = "serving" =>
       /\ reverse_obesity_map = ExpectedLabel
       /\ \A c1, c2 \in 0..6 :
            reverse_obesity_map[c1] = reverse_obesity_map[c2] => c1 = c2
       /\ {reverse_obesity_map[c] : c \in 0..6} = DOMAIN obesity_map
  /\ \A r \in Requests :
       InferenceAnswered(r) =>
         LET code == PipelinePredict(model_pipeline, input_df[r]).value
         IN  /\ response[r].status = 200
             /\ response[r].body.json = "object"
             /\ response[r].body.obj.prediction_code = code
             /\ response[r].body.obj.prediction_label =
                  IF code \in 0..6 THEN ExpectedLabel[code]
                  ELSE "Unknown Prediction"

\* C4 witness: the model answered 7 and the request succeeded, and another
\* request got a label of the table
UnknownCodeSucceeds ==
  /\ \E r \in Requests :
       /\ InferenceAnswered(r)
       /\ response[r].body.obj.prediction_code = 7
       /\ response[r].body.obj.prediction_label = "Unknown Prediction"
  /\ \E r \in Requests :
       /\ InferenceAnswered(r)
       /\ response[r].body.obj.prediction_code = 0
       /\ response[r].body.obj.prediction_label = "insufficient weight"

\* The frame of request r was built from its dict
Normalized(r) == input_df[r] # None

\* C5: MTRANS is canonicalized by the four renamings and no other value is
\* changed; canonicalizing the canonical value again changes nothing.
MtransCanonicalAndIdempotent ==
  \A r \in Requests :
    Normalized(r) =>
      LET in == data[r]["MTRANS"]
          out == input_data_dict[r]["MTRANS"]
      IN  /\ out = CASE in = "automobile" -> "car"
                     [] in = "motorbike" -> "motorcycle"
                     [] in = "bike" -> "bicycle"
                     [] in = "public_transportation" -> "public transport"
                     [] OTHER -> in
          /\ Column(input_df[r], "MTRANS") = out
          /\ MTRANSStep(input_data_dict, r)[r]["MTRANS"] = out

\* C5 witness: bike became bicycle
BikeCanonicalized ==
  \E r \in Requests :
    /\ Normalized(r)
    /\ data[r]["MTRANS"] = "bike"
    /\ Column(input_df[r], "MTRANS") = "bicycle"

\* C6: CAEC and CALC each map 'no' to 'never' and nothing else, each on its
\* own value.
NoBecomesNever ==
  \A r \in Requests :
    Normalized(r) =>
      \A c \in {"CAEC", "CALC"} :
        /\ input_data_dict[r][c] =
             IF data[r][c] = "no" THEN "never" ELSE data[r][c]
        /\ Column(input_df[r], c) = input_data_dict[r][c]

\* C6 witness: CALC 'no' became 'never' beside a CAEC that was kept
CalcNoBesideCaecKept ==
  \E r \in Requests :
    /\ Normalized(r)
    /\ data[r]["CAEC"] = "sometimes"
    /\ data[r]["CALC"] = "no"
    /\ Column(input_df[r], "CAEC") = "sometimes"
    /\ Column(input_df[r], "CALC") = "never"

\* The natural t is a nearest integer of k * |x|, for a finite double x and
\* a natural k: no further than 1/2 from it
IsNearest(t, x, k) ==
  LET scaled == MulAdd(x.m, k, 0)
      n == 0 - x.e
      half == ShiftLeft(Num(1), n)
      twiceT == ShiftLeft(t, n + 1)
      twiceX == ShiftLeft(scaled, 1)
  IN  IF x.e >= 0 THEN t = ShiftLeft(scaled, x.e)
      ELSE /\ LessEq(twiceT, Add(twiceX, half))
           /\ LessEq(twiceX, Add(twiceT, half))

\* The two naturals around k * |x|
Around(x, k) ==
  LET scaled == MulAdd(x.m, k, 0)
      floor == IF x.e >= 0 THEN ShiftLeft(scaled, x.e)
               ELSE FloorShift(scaled, 0 - x.e).q
  IN  {floor, MulAdd(floor, 1, 1)}

\* y is x rounded to one decimal: the double that t/10 is read as, for a
\* nearest integer t of 10 * x; NaN and the infinities stay
NearestTenth(y, x) ==
  CASE x.k = "nan" -> y = NaN
    [] x.k = "inf" -> y = x
    [] x.k = "float" ->
         \E t \in Around(x, 10) :
           IsNearest(t, x, 10) /\ y = FromDecimal(x.neg, t, 0 - 1)

\* C7: the frame handed to the model holds all 16 columns; Height is the
\* input times 100 (the float product) rounded to one decimal, Weight and
\* Age are rounded to one decimal, and each of the five integer columns is
\* the nearest integer of its input, or the missing value when the input is
\* None (never 0).
FrameRounded ==
  \A r \in Requests :
    Normalized(r) =>
      LET df == input_df[r]
      IN  /\ df.columns = ColumnsOrder
          /\ Len(df.row) = 16
          /\ NearestTenth(Column(df, "Height"), Times100(data[r]["Height"]))
          /\ \A c \in {"Weight", "Age"} :
               NearestTenth(Column(df, c), data[r][c])
          /\ \A i \in 1..Len(IntCols) :
               LET in == data[r][IntCols[i]]
                   out == Column(df, IntCols[i])
               IN  IF in = None THEN out = NA
                   ELSE /\ out.k = "int"
                        /\ in.k = "float"
                        /\ IsNearest(out.n, in, 1)
                        /\ out.neg = (in.neg /\ out.n # << >>)

\* C7 witness: an absent FCVC is the missing value in the frame, beside a
\* height of 1.6875 m that became 168.8 cm
AbsentKeptMissing ==
  \E r \in Requests :
    /\ Normalized(r)
    /\ data[r]["FCVC"] = None
    /\ Column(input_df[r], "FCVC") = NA
    /\ data[r]["Height"] = Float(54)
    /\ Column(input_df[r], "Height") = Decimal(1688, 1)

\* The response is one the service produced and reports a failure
ServiceFailure(resp) ==
  /\ resp \notin GatewayResponses
  /\ \/ resp.status \in {422, 500}
     \/ CarriesError(resp, PredictionFailed)
     \/ CarriesError(resp, ModelNotLoaded)

\* C8 as stated: the page shows a failed connection, an HTTP error status
\* and an unparsable body each as its own error state, and shows every
\* failure response of the service as an HTTP error.
FailuresShownDistinctly ==
  \A r \in Requests :
    (pc[r] = "done" /\ sender[r] = "collector") =>
      /\ response[r] = None => display[r].state = "connection error"
      /\ response[r] # None =>
           /\ response[r].status >= 400 => display[r].state = "http error"
           /\ (response[r].status < 400 /\ response[r].body.json = "invalid")
                => display[r].state = "data error"
           /\ ServiceFailure(response[r]) => display[r].state = "http error"

\* The response is a success response
Success(resp) ==
  /\ resp.status = 200
  /\ resp.body.json = "object"
  /\ {"prediction_code", "prediction_label"} \subseteq DOMAIN resp.body.obj

\* C9: for every success response the page shows the label, the code and
\* the one advisory of the code's band: 0, 1, 2, 3, and 4 or more; a
\* negative code gets no advisory.
AdvisoryByCode ==
  \A r \in Requests :
    (pc[r] = "done" /\ sender[r] = "collector" /\ response[r] # None
       /\ Success(response[r])) =>
      LET code == response[r].body.obj.prediction_code
      IN  /\ display[r].state = "success"
          /\ display[r].label = response[r].body.obj.prediction_label
          /\ display[r].code = code
          /\ display[r].advisory =
               CASE code = 0 -> "below healthy range"
                 [] code = 1 -> "healthy"
                 [] code = 2 -> "overweight level I"
                 [] code = 3 -> "overweight level II"
                 [] code >= 4 -> "obesity range"
                 [] code < 0 -> "none"

\* C9 witness: code 7 is shown as "Unknown Prediction" with the obesity
\* advisory
UnknownCodeShownAsObesity ==
  \E r \in Requests :
    /\ pc[r] = "done"
    /\ sender[r] = "collector"
    /\ display[r].state = "success"
    /\ display[r].code = 7
    /\ display[r].label = "Unknown Prediction"
    /\ display[r].advisory = "obesity range"

\* C10: once the service is up no step changes the model or the tables; a
\* validated record is never changed; and two requests with the same record
\* have the same response, whatever ran beside them.
RequestsIndependent ==
  /\ [][process = "serving" => globals' = globals]_vars
  /\ [][\A r \in Requests : Handled(r) => data'[r] = data[r]]_vars
  /\ [](\A r1, r2 \in Requests :
          (Handled(r1) /\ Answered(r1) /\ Answered(r2) /\ data[r1] = data[r2])
            => response[r1] = response[r2])

\* C10 witness: of two requests with the same record, one was answered while
\* the other was inside its handler, its dict copied and not yet normalized
TwoHandlersInterleaved ==
  \E r1, r2 \in Requests :
    /\ r1 # r2
    /\ data[r1] = data[r2]
    /\ Handled(r1)
    /\ pc[r1] = "entered"
    /\ Answered(r2)
====
